---- MODULE Spec2Model ----
(***************************************************************************)
(* A model of the CoWec storage primitive (src/src/lib.rs): the RefCnt     *)
(* capability and its single-threaded implementation RCell, the allocation *)
(* owning CoWecBlock header with its packed length/capacity word, and the  *)
(* tagged handle CoWec.                                                    *)
(*                                                                         *)
(* Memory is a heap of MaxBlocks block addresses (even, non-zero).  A      *)
(* handle is its `ptr` word; handles with the same word are                *)
(* indistinguishable, so the live handles are kept as a count per word.    *)
(***************************************************************************)
EXTENDS Integers, Sequences, FiniteSets, TLC

\* ------------------------------------------------------------- bounds
\* Number of block addresses the allocator can hand out.
MaxBlocks == 2
\* Live handles (stubs included) a run of the handle layer keeps at once.
MaxHandles == 3
\* Threads that clone and drop handles concurrently.
MaxThreads == 2
\* Element values a run of the block layer creates (each one is fresh).
MaxVals == 2
\* The small capacities passed to create / resize are 2^0 .. 2^MaxSmallExp.
MaxSmallExp == 2

\* ---------------------------------------------------- program constants
\* u16::MAX, the saturation value of RCell.
U16_MAX == 65535
\* CoWecBlock::LEN_MASK = 0b0000_1111_1111_1111
LEN_MASK == 4095
\* CoWecBlock::CAP_OFFSET
CAP_OFFSET == 12

VARIABLES
    heap,       \* address -> block (header, payload, allocation size)
    handles,    \* tagged ptr word -> number of live CoWec handles holding it
    disposals,  \* address -> times dispose ran on the allocation made there last
    destroyed,  \* element value -> times its destructor ran (when it ran)
    fault,      \* the undefined behaviour met so far (a set of its kinds)
    debug,      \* the build: TRUE when debug assertions are compiled in
    me,         \* the raw block pointer a CoWecBlock-level caller holds (0: none)
    nextVal,    \* the next fresh element value
    moved,      \* the element values remove() handed back to the caller
    owned,      \* thread -> tagged ptr word -> handles the thread owns
    tpc,        \* thread -> the block it has yet to dispose (0: none)
    outcome,    \* how the last operation ended: "ok" or "panic"
    last        \* the last operation, its arguments and its result

vars == <<heap, handles, disposals, destroyed, fault, debug, me, nextVal,
          moved, owned, tpc, outcome, last>>

\* ------------------------------------------------------------ addresses
\* Block allocations are align(2): the addresses are even and non-zero.
Addr(i) == 2 * i
Addrs == {Addr(i) : i \in 1..MaxBlocks}
\* Every word a handle can hold: 0, a block address, a block address + 1.
PtrVals == {0} \cup Addrs \cup {a + 1 : a \in Addrs}

\* A slot of the payload that was never written.
Uninit == 0

\* Memory that is not allocated (never handed out, or handed back).
NoBlock == [live |-> FALSE, kind |-> "-", rcell |-> 0, len |-> 0,
            data |-> <<>>, slots |-> 0]

\* ------------------------------------------------------------- RCell
\* A counter that starts with no reference at all.
RCell_default_zero == 1 - 1

\* impl Default for RCell: a single reference, not 0.
RCell_default == 1

\* A decrement that reports zero one reference early.
RCell_dec_ref_early(cell) ==
    [cell |-> (cell - 1) % (U16_MAX + 1), ret |-> (cell <= 2)]

\* RCell::dec_ref: stores old - 1 (u16), returns old == 1.
RCell_dec_ref(cell) ==
    [cell |-> (cell - 1) % (U16_MAX + 1), ret |-> (cell = 1)]

\* An increment that refuses at u16::MAX but has already stored old + 1 (u16).
RCell_inc_ref_wrap(cell) ==
    [cell |-> (cell + 1) % (U16_MAX + 1), ret |-> (cell # U16_MAX)]

\* RCell::inc_ref: refuses at u16::MAX and leaves the cell alone.
RCell_inc_ref(cell) ==
    IF cell = U16_MAX
        THEN [cell |-> cell, ret |-> FALSE]
        ELSE [cell |-> cell + 1, ret |-> TRUE]

\* ------------------------------------------------------- u16 arithmetic
\* Bitwise and / or of two u16 words, a hex digit at a time; the digit tables
\* are built bit by bit.
RECURSIVE AndBits(_, _)
AndBits(x, y) ==
    IF x = 0 \/ y = 0 THEN 0
    ELSE (x % 2) * (y % 2) + 2 * AndBits(x \div 2, y \div 2)

RECURSIVE OrBits(_, _)
OrBits(x, y) ==
    IF x = 0 THEN y
    ELSE IF y = 0 THEN x
    ELSE (IF x % 2 = 1 \/ y % 2 = 1 THEN 1 ELSE 0)
         + 2 * OrBits(x \div 2, y \div 2)

AndDigit == [x \in 0..15 |-> [y \in 0..15 |-> AndBits(x, y)]]
OrDigit == [x \in 0..15 |-> [y \in 0..15 |-> OrBits(x, y)]]

BitAnd(x, y) ==
    AndDigit[x % 16][y % 16]
    + 16 * AndDigit[(x \div 16) % 16][(y \div 16) % 16]
    + 256 * AndDigit[(x \div 256) % 16][(y \div 256) % 16]
    + 4096 * AndDigit[(x \div 4096) % 16][(y \div 4096) % 16]

BitOr(x, y) ==
    OrDigit[x % 16][y % 16]
    + 16 * OrDigit[(x \div 16) % 16][(y \div 16) % 16]
    + 256 * OrDigit[(x \div 256) % 16][(y \div 256) % 16]
    + 4096 * OrDigit[(x \div 4096) % 16][(y \div 4096) % 16]

\* !x on a u16
BitNot16(x) == U16_MAX - x
\* x << n on a u16 (n < 16): the bits shifted out are lost
Shl16(x, n) == (x * (2 ^ n)) % (U16_MAX + 1)
\* x >> n
Shr16(x, n) == x \div (2 ^ n)

\* usize::trailing_zeros of a non-zero word
RECURSIVE trailing_zeros(_)
trailing_zeros(n) == IF n % 2 = 1 THEN 0 ELSE 1 + trailing_zeros(n \div 2)

\* usize::is_power_of_two
RECURSIVE is_power_of_two(_)
is_power_of_two(n) ==
    IF n <= 0 THEN FALSE
    ELSE IF n = 1 THEN TRUE
    ELSE n % 2 = 0 /\ is_power_of_two(n \div 2)

\* ------------------------------------------------------- CoWecBlock
\* mem::needs_drop::<T>(): the left element type of the tests (String) has a
\* destructor, the right one (usize) has none.
needs_drop(kind) == kind = "T"

\* CoWecBlock::len: the low 12 bits of the packed word.
len(blk) == BitAnd(blk.len, LEN_MASK)

\* CoWecBlock::capacity: class 0 is tight, class i means 2^i slots.
capacity(blk) ==
    LET cap == Shr16(blk.len, CAP_OFFSET)
    IN  IF cap = 0 THEN len(blk) ELSE 2 ^ cap

\* CoWecBlock::layout, in payload slots: the header and `cap` slots.
layout(cap) == cap

\* The slot at index i (from 0) of a payload: slots past the written prefix
\* were never initialised.
Slot(data, i) == IF i < Len(data) THEN data[i + 1] ELSE Uninit

\* The machine state the block and handle operations work on.
World == [heap |-> heap, disposals |-> disposals, destroyed |-> destroyed,
          fault |-> fault]

\* How often the destructor of value v has run (destroyed holds the values it
\* ran on at least once).
Destroyed(v) == IF v \in DOMAIN destroyed THEN destroyed[v] ELSE 0

\* Running the destructor of the value in one slot.
DropElem(w, v) ==
    IF v = Uninit
        THEN [w EXCEPT !.fault = @ \cup {"drop_uninit"}]
    ELSE IF v \in DOMAIN w.destroyed
        THEN [w EXCEPT !.destroyed[v] = @ + 1]
    ELSE [w EXCEPT !.destroyed = [u \in DOMAIN @ \cup {v} |->
                                     IF u = v THEN 1 ELSE @[u]]]

\* Running the destructors of the values in slots 0..n, one after the other.
DropSlots(w, data, n) ==
    LET written == Len(data)
        range == [i \in 1..n |-> IF i <= written THEN data[i] ELSE Uninit]
        seen  == {range[i] : i \in 1..n}
        vals  == seen \ {Uninit}
        old   == w.destroyed
        times(v) == IF Cardinality(seen) = n
                        THEN 1
                        ELSE Cardinality({i \in 1..n : range[i] = v})
    IN  [w EXCEPT
            !.destroyed = [v \in DOMAIN old \cup vals |->
                              (IF v \in DOMAIN old THEN old[v] ELSE 0)
                              + (IF v \in vals THEN times(v) ELSE 0)],
            !.fault = @ \cup (IF Uninit \in seen THEN {"drop_uninit"} ELSE {})]

\* A dispose that hands the memory back without running the destructors of
\* the elements.
dispose_no_drop(w, a) ==
    [w EXCEPT !.heap[a] = NoBlock, !.disposals[a] = @ + 1]

\* CoWecBlock::dispose: drops the counter, then the elements in 0..len, and
\* hands the memory back with the layout of capacity().
dispose(w, a) ==
    LET blk == w.heap[a]
        lay == layout(capacity(blk))
        w1  == IF needs_drop(blk.kind)
                   THEN DropSlots(w, blk.data, len(blk))
                   ELSE w
        bad == (IF blk.live THEN {} ELSE {"double_free"})
               \cup (IF blk.live /\ lay # layout(blk.slots)
                         THEN {"dealloc_layout"} ELSE {})
    IN  [w1 EXCEPT !.heap[a] = NoBlock,
                   !.disposals[a] = @ + 1,
                   !.fault = @ \cup bad]

\* A write of the counter through pointer a; a write to freed memory is
\* undefined behaviour and is only recorded.
WriteCell(w, a, c) ==
    IF w.heap[a].live
        THEN [w EXCEPT !.heap[a].rcell = c]
        ELSE [w EXCEPT !.fault = @ \cup {"use_after_free"}]

\* A dec_ref that forgets to dispose.
dec_ref_leak(w, a, seen) == WriteCell(w, a, RCell_dec_ref(seen).cell)

\* CoWecBlock::dec_ref: dispose when the counter says zero.  `seen` is the
\* value the read of the counter through the pointer yields.
dec_ref(w, a, seen) ==
    LET r  == RCell_dec_ref(seen)
        w1 == WriteCell(w, a, r.cell)
    IN  IF r.ret THEN dispose(w1, a) ELSE w1

\* An inc_ref that hands the pointer out without counting the reference.
inc_ref_no_store(w, a, seen) == [w |-> w, ptr |-> a, ok |-> TRUE]

\* CoWecBlock::inc_ref: the same pointer, or unimplemented!() at saturation.
inc_ref(w, a, seen) ==
    LET r  == RCell_inc_ref(seen)
        w1 == WriteCell(w, a, r.cell)
    IN  IF r.ret
            THEN [w |-> w1, ptr |-> a, ok |-> TRUE]
            ELSE [w |-> w1, ptr |-> 0, ok |-> FALSE]

\* A create that stores the capacity class without shifting it above the
\* length bits.
create_no_shift(w, a, cap, kind) ==
    [w |-> [w EXCEPT !.heap[a] =
                         [live |-> TRUE, kind |-> kind, rcell |-> RCell_default,
                          len |-> trailing_zeros(cap), data |-> <<>>,
                          slots |-> layout(cap)],
                     !.disposals[a] = 0],
     ptr |-> a, ok |-> TRUE]

\* CoWecBlock::create at the address the allocator hands out.  The two debug
\* assertions on the fresh header come before the allocation.
create(w, a, cap, kind) ==
    LET cap_encoded == trailing_zeros(cap) % (U16_MAX + 1)
        header == [live |-> TRUE, kind |-> kind, rcell |-> RCell_default,
                   len |-> Shl16(cap_encoded, CAP_OFFSET), data |-> <<>>,
                   slots |-> layout(cap)]
    IN  IF debug /\ (capacity(header) # cap \/ len(header) # 0)
            THEN [w |-> w, ptr |-> 0, ok |-> FALSE]
            ELSE [w |-> [w EXCEPT !.heap[a] = header, !.disposals[a] = 0],
                  ptr |-> a, ok |-> TRUE]

\* The payload after a write of value v to slot i; the slots the write skips
\* stay uninitialised.
RECURSIVE WriteSlot(_, _, _)
WriteSlot(data, i, v) ==
    IF i < Len(data) THEN [data EXCEPT ![i + 1] = v]
    ELSE IF i = Len(data) THEN Append(data, v)
    ELSE WriteSlot(Append(data, Uninit), i, v)

\* ptr::copy(data + src, data + dst, n): n slots, the regions may overlap
\* (memmove), so every slot is read from the payload as it was.
RECURSIVE CopyFrom(_, _, _, _, _)
CopyFrom(orig, data, src, dst, n) ==
    IF n <= 0 THEN data
    ELSE CopyFrom(orig, WriteSlot(data, dst, Slot(orig, src)),
                  src + 1, dst + 1, n - 1)

copy(data, src, dst, n) == CopyFrom(data, data, src, dst, n)

\* The first n slots of a payload (what realloc keeps when it shrinks).
Keep(data, n) == SubSeq(data, 1, IF n < Len(data) THEN n ELSE Len(data))

\* The live elements of a block: slots 0..len, left to right.
Elems(blk) ==
    IF len(blk) <= Len(blk.data)
        THEN SubSeq(blk.data, 1, len(blk))
        ELSE [i \in 1..len(blk) |-> Slot(blk.data, i - 1)]

\* Touching slots lo..hi-1 of a block with fewer than hi slots is out of
\* bounds of the allocation.
Bounds(w, blk, hi) ==
    IF hi > blk.slots THEN [w EXCEPT !.fault = @ \cup {"out_of_bounds"}] ELSE w

\* CoWecBlock::resize: realloc to the layout of new_cap, at the address a2 the
\* allocator returns (the old one or a free one), then the capacity class is
\* rewritten and the two debug assertions run.
resize(w, a, new_cap, a2) ==
    LET cap_encoded == trailing_zeros(new_cap) % (U16_MAX + 1)
        blk     == w.heap[a]
        old_len == len(blk)
        bad     == IF layout(capacity(blk)) # layout(blk.slots)
                       THEN {"realloc_layout"} ELSE {}
        moved_  == [blk EXCEPT !.slots = layout(new_cap),
                               !.data = Keep(blk.data, layout(new_cap))]
        new_blk == [moved_ EXCEPT
                       !.len = BitOr(BitAnd(moved_.len, LEN_MASK),
                                     Shl16(cap_encoded, CAP_OFFSET))]
        h1      == [w.heap EXCEPT ![a] = NoBlock]
        w1      == [w EXCEPT !.heap = [h1 EXCEPT ![a2] = new_blk],
                             !.disposals[a2] = 0,
                             !.fault = @ \cup bad]
    IN  [w |-> w1, ptr |-> a2,
         ok |-> ~(debug /\ (capacity(new_blk) # new_cap
                            \/ len(new_blk) # old_len))]

\* An insert that writes val over the slot at pos without shifting the tail.
insert_no_shift(w, a, pos, val) ==
    LET blk == w.heap[a]
    IN  [w |-> [w EXCEPT !.heap[a] =
                    [blk EXCEPT !.data = WriteSlot(blk.data, pos, val),
                                !.len = (blk.len + 1) % (U16_MAX + 1)]],
         ok |-> TRUE]

\* An insert that ors the new length into the packed word without clearing
\* the old length bits.
insert_no_mask(w, a, pos, val) ==
    LET blk     == w.heap[a]
        shifted == copy(blk.data, pos, pos + 1, len(blk) - pos)
    IN  [w |-> [w EXCEPT !.heap[a] =
                    [blk EXCEPT !.data = WriteSlot(shifted, pos, val),
                                !.len = BitOr(blk.len, len(blk) + 1)]],
         ok |-> TRUE]

\* CoWecBlock::insert: shift the tail one slot right, write val, store the
\* new length under the old capacity class.  The third debug assertion is
\* that the new length fits the length bits; a build without it goes on, and
\* when it fails the unwinding drops val, which insert took by value.
insert(w, a, pos, val) ==
    LET blk     == w.heap[a]
        new_len == (len(blk) + 1) % (U16_MAX + 1)
        shifted == copy(blk.data, pos, pos + 1, len(blk) - pos)
        data2   == WriteSlot(shifted, pos, val)
        new_blk == [blk EXCEPT
                       !.data = data2,
                       !.len = BitOr(BitAnd(blk.len, BitNot16(LEN_MASK)),
                                     new_len)]
        fits    == BitAnd(new_len, LEN_MASK) = new_len
        w1      == IF fits THEN w
                   ELSE [w EXCEPT !.fault = @ \cup {"len_overflow"}]
    IN  IF debug /\ ~fits
            THEN [w |-> IF needs_drop(blk.kind) THEN DropElem(w, val) ELSE w,
                  ok |-> FALSE]
            ELSE [w |-> [Bounds(w1, blk, len(blk) + 1) EXCEPT
                            !.heap[a] = new_blk],
                  ok |-> TRUE]

\* CoWecBlock::remove: read the value out, shift the tail one slot left, take
\* one off the packed word.
remove(w, a, pos) ==
    LET blk     == w.heap[a]
        elem    == Slot(blk.data, pos)
        shifted == copy(blk.data, pos + 1, pos, len(blk) - pos - 1)
        new_blk == [blk EXCEPT !.data = shifted,
                               !.len = (blk.len - 1) % (U16_MAX + 1)]
    IN  [w |-> [Bounds(w, blk, len(blk)) EXCEPT !.heap[a] = new_blk],
         ret |-> elem]

\* CoWecBlock::get: the value in slot pos.
get(w, a, pos) == Slot(w.heap[a].data, pos)

\* An assignment through a reference to the slot after pos.
get_mut_assign_off(w, a, pos, val) ==
    [w EXCEPT !.heap[a].data = WriteSlot(w.heap[a].data, pos + 1, val)]

\* *CoWecBlock::get_mut(me, pos) = val: the assignment through the reference
\* drops the value that was there and stores the new one.
get_mut_assign(w, a, pos, val) ==
    LET blk == w.heap[a]
        w1  == IF needs_drop(blk.kind) THEN DropElem(w, Slot(blk.data, pos))
               ELSE w
    IN  [Bounds(w1, blk, pos + 1) EXCEPT
            !.heap[a].data = WriteSlot(blk.data, pos, val)]

\* ------------------------------------------------------------- CoWec
\* CoWec::new_stub: the zero word.
new_stub == 0

\* CoWec::is_stub / is_left / is_right on the handle word.
is_stub(p) == p = 0
\* An is_left that forgets the stub: the zero word is even too.
is_left_no_stub(p) == p % 2 = 0

is_left(p) == p % 2 = 0 /\ ~is_stub(p)
is_right(p) == ~is_left(p) /\ ~is_stub(p)

\* CoWec::new_left: a fresh Block<R, T> of capacity 2, the address as it is.
new_left(w, a) ==
    LET l == create(w, a, 2, "T")
    IN  [w |-> l.w, ptr |-> l.ptr, ok |-> l.ok]

\* CoWec::new_right: a fresh Block<R, U> of capacity 2, the address plus 1.
new_right(w, a) ==
    LET r == create(w, a, 2, "U")
    IN  [w |-> r.w, ptr |-> r.ptr + 1, ok |-> r.ok]

\* A clone that forgets to put the tag back on a right handle.
clone_no_retag(w, p, seen) ==
    IF is_left(p) THEN inc_ref(w, p, seen)
    ELSE IF is_right(p) THEN inc_ref(w, p - 1, seen)
    ELSE [w |-> w, ptr |-> 0, ok |-> TRUE]

\* Clone for CoWec: one more reference on the block behind the word, and the
\* same word again; a stub clones to a stub.
clone(w, p, seen) ==
    IF is_left(p)
        THEN inc_ref(w, p, seen)
    ELSE IF is_right(p)
        THEN LET r == inc_ref(w, p - 1, seen)
             IN  [w |-> r.w, ptr |-> r.ptr + 1, ok |-> r.ok]
    ELSE [w |-> w, ptr |-> 0, ok |-> TRUE]

\* A drop that takes every handle that is not left for a right one, and so
\* follows the pointer of a stub.
drop_no_stub_check(w, p, seen) ==
    IF is_left(p) THEN dec_ref(w, p, seen)
    ELSE IF ~is_stub(p) THEN dec_ref(w, p - 1, seen)
    ELSE [w EXCEPT !.fault = @ \cup {"null_deref"}]

\* Drop for CoWec: one reference less on the block behind the word; nothing
\* for a stub.
drop(w, p, seen) ==
    IF is_left(p) THEN dec_ref(w, p, seen)
    ELSE IF is_right(p) THEN dec_ref(w, p - 1, seen)
    ELSE w

\* ------------------------------------------------------------ state
\* What freed memory may hold where the counter was.
StaleCells == {0, 1, U16_MAX}

\* The length a nearly full block starts a run with (see InitFull).
FullLen == LEN_MASK - 1

\* The element values made so far: they are numbered from 1.
ValsMade == 1..(nextVal - 1)

\* A run makes at most MaxVals fresh values (beyond the FullLen ones a nearly
\* full block starts with).
CanMake ==
    (IF nextVal > FullLen THEN nextVal - FullLen ELSE nextVal) <= MaxVals

RECURSIVE SumOver(_, _)
SumOver(f, S) ==
    IF S = {} THEN 0
    ELSE LET x == CHOOSE y \in S : TRUE IN f[x] + SumOver(f, S \ {x})

\* The number of live handles.
LiveHandles == SumOver(handles, PtrVals)

\* The block address behind a non-stub handle word.
Untag(p) == IF is_right(p) THEN p - 1 ELSE p

\* What a read of the counter behind handle word p can yield: the cell when
\* the block is allocated, otherwise whatever the freed memory holds.
CellSeen(p) ==
    IF is_stub(p) THEN {0}
    ELSE IF heap[Untag(p)].live THEN {heap[Untag(p)].rcell}
    ELSE StaleCells

\* The number of live handles whose word refers to the block at a.
HandlesOn(a) == handles[a] + handles[a + 1]

Threads == 1..MaxThreads

Op(op, ptr, arg, ret) == [op |-> op, ptr |-> ptr, arg |-> arg, ret |-> ret]

SetWorld(w) ==
    /\ heap' = w.heap
    /\ disposals' = w.disposals
    /\ destroyed' = w.destroyed
    /\ fault' = w.fault

Init ==
    /\ heap = [a \in Addrs |-> NoBlock]
    /\ handles = [p \in PtrVals |-> 0]
    /\ disposals = [a \in Addrs |-> 0]
    /\ destroyed = << >>
    /\ fault = {}
    /\ debug \in BOOLEAN
    /\ me = 0
    /\ nextVal = 1
    /\ moved = {}
    /\ owned = [t \in Threads |-> [p \in PtrVals |-> 0]]
    /\ tpc = [t \in Threads |-> 0]
    /\ outcome = "ok"
    /\ last = Op("init", 0, 0, 0)

\* ------------------------------------------------- handle-layer actions
\* let h = CoWec::new_stub();
NewStub(lim) ==
    /\ LiveHandles < lim
    /\ handles' = [handles EXCEPT ![new_stub] = @ + 1]
    /\ outcome' = "ok"
    /\ last' = Op("new_stub", new_stub, 0, new_stub)
    /\ UNCHANGED <<heap, disposals, destroyed, fault, debug, me, nextVal, moved,
                   owned, tpc>>

\* let h = CoWec::new_left(); the allocator hands out a free address a.
NewLeft(a, lim) ==
    /\ LiveHandles < lim
    /\ ~heap[a].live
    /\ LET r == new_left(World, a)
       IN  /\ SetWorld(r.w)
           /\ handles' = [handles EXCEPT ![r.ptr] = @ + 1]
           /\ outcome' = "ok"
           /\ last' = Op("new_left", r.ptr, 0, r.ptr)
    /\ UNCHANGED <<debug, me, nextVal, moved, owned, tpc>>

\* let h = CoWec::new_right();
NewRight(a, lim) ==
    /\ LiveHandles < lim
    /\ ~heap[a].live
    /\ LET r == new_right(World, a)
       IN  /\ SetWorld(r.w)
           /\ handles' = [handles EXCEPT ![r.ptr] = @ + 1]
           /\ outcome' = "ok"
           /\ last' = Op("new_right", r.ptr, 0, r.ptr)
    /\ UNCHANGED <<debug, me, nextVal, moved, owned, tpc>>

\* let d = h.clone(); for a live handle h with word p.  At saturation the call
\* panics: no handle is made and h stays live.
Clone(p, lim) ==
    /\ handles[p] > 0
    /\ LiveHandles < lim
    /\ \E seen \in CellSeen(p) :
         LET r == clone(World, p, seen)
         IN  /\ SetWorld(r.w)
             /\ handles' = IF r.ok THEN [handles EXCEPT ![r.ptr] = @ + 1]
                           ELSE handles
             /\ outcome' = IF r.ok THEN "ok" ELSE "panic"
             /\ last' = Op("clone", p, 0, r.ptr)
    /\ UNCHANGED <<debug, me, nextVal, moved, owned, tpc>>

\* drop(h); for a live handle h with word p.
Drop(p) ==
    /\ handles[p] > 0
    /\ \E seen \in CellSeen(p) :
         SetWorld(drop(World, p, seen))
    /\ handles' = [handles EXCEPT ![p] = @ - 1]
    /\ outcome' = "ok"
    /\ last' = Op("drop", p, 0, 0)
    /\ UNCHANGED <<debug, me, nextVal, moved, owned, tpc>>

Next ==
    \/ NewStub(MaxHandles)
    \/ \E a \in Addrs : NewLeft(a, MaxHandles)
    \/ \E a \in Addrs : NewRight(a, MaxHandles)
    \/ \E p \in PtrVals : Clone(p, MaxHandles)
    \/ \E p \in PtrVals : Drop(p)

Spec == Init /\ [][Next]_vars

\* The handle layer on a single block address, with no bound on the handles
\* but the counter's own: the runs that take a counter to u16::MAX.
NextSat ==
    \/ NewLeft(Addr(1), U16_MAX + 1)
    \/ NewRight(Addr(1), U16_MAX + 1)
    \/ \E p \in {Addr(1), Addr(1) + 1} : Clone(p, U16_MAX + 1)
    \/ \E p \in {Addr(1), Addr(1) + 1} : Drop(p)

SpecSat == Init /\ [][NextSat]_vars

\* --------------------------------------------- handles on several threads
\* The handle layer over a counter whose inc_ref and dec_ref are each one
\* atomic step (the RefCnt contract, implemented thread-safely).  Every
\* thread works on handles it owns; the steps of the threads interleave.

\* Thread t runs CoWec::new_left() and owns the handle.
TNewLeft(t, a) ==
    /\ tpc[t] = 0
    /\ LiveHandles < MaxHandles
    /\ ~heap[a].live
    /\ LET r == new_left(World, a)
       IN  /\ SetWorld(r.w)
           /\ handles' = [handles EXCEPT ![r.ptr] = @ + 1]
           /\ owned' = [owned EXCEPT ![t][r.ptr] = @ + 1]
           /\ last' = Op("new_left", r.ptr, t, r.ptr)
    /\ outcome' = "ok"
    /\ UNCHANGED <<debug, me, nextVal, moved, tpc>>

\* Thread t runs CoWec::new_right() and owns the handle.
TNewRight(t, a) ==
    /\ tpc[t] = 0
    /\ LiveHandles < MaxHandles
    /\ ~heap[a].live
    /\ LET r == new_right(World, a)
       IN  /\ SetWorld(r.w)
           /\ handles' = [handles EXCEPT ![r.ptr] = @ + 1]
           /\ owned' = [owned EXCEPT ![t][r.ptr] = @ + 1]
           /\ last' = Op("new_right", r.ptr, t, r.ptr)
    /\ outcome' = "ok"
    /\ UNCHANGED <<debug, me, nextVal, moved, tpc>>

\* Thread t clones a handle it owns: the atomic inc_ref is the only step that
\* touches shared memory.  The clone is kept or handed to thread u.
TClone(t, p, u) ==
    /\ tpc[t] = 0
    /\ owned[t][p] > 0
    /\ LiveHandles < MaxHandles
    /\ \E seen \in CellSeen(p) :
         LET r == clone(World, p, seen)
         IN  /\ SetWorld(r.w)
             /\ handles' = IF r.ok THEN [handles EXCEPT ![r.ptr] = @ + 1]
                           ELSE handles
             /\ owned' = IF r.ok THEN [owned EXCEPT ![u][r.ptr] = @ + 1]
                         ELSE owned
             /\ outcome' = IF r.ok THEN "ok" ELSE "panic"
             /\ last' = Op("clone", p, t, r.ptr)
    /\ UNCHANGED <<debug, me, nextVal, moved, tpc>>

\* Thread t drops a handle it owns, first step: the atomic dec_ref.  When it
\* reports zero the thread goes on to dispose the block.
TDropDec(t, p) ==
    /\ tpc[t] = 0
    /\ owned[t][p] > 0
    /\ ~is_stub(p)
    /\ \E seen \in CellSeen(p) :
         LET r == RCell_dec_ref(seen)
         IN  /\ SetWorld(WriteCell(World, Untag(p), r.cell))
             /\ tpc' = [tpc EXCEPT ![t] = IF r.ret THEN Untag(p) ELSE 0]
    /\ handles' = [handles EXCEPT ![p] = @ - 1]
    /\ owned' = [owned EXCEPT ![t][p] = @ - 1]
    /\ outcome' = "ok"
    /\ last' = Op("drop", p, t, 0)
    /\ UNCHANGED <<debug, me, nextVal, moved>>

\* Thread t drops a handle, second step: CoWecBlock::dispose.
TDispose(t) ==
    /\ tpc[t] # 0
    /\ SetWorld(dispose(World, tpc[t]))
    /\ tpc' = [tpc EXCEPT ![t] = 0]
    /\ outcome' = "ok"
    /\ last' = Op("dispose", tpc[t], t, 0)
    /\ UNCHANGED <<handles, debug, me, nextVal, moved, owned>>

NextMT ==
    \/ \E t \in Threads, a \in Addrs : TNewLeft(t, a)
    \/ \E t \in Threads, a \in Addrs : TNewRight(t, a)
    \/ \E t \in Threads, u \in Threads, p \in PtrVals : TClone(t, p, u)
    \/ \E t \in Threads, p \in PtrVals : TDropDec(t, p)
    \/ \E t \in Threads : TDispose(t)

SpecMT == Init /\ [][NextMT]_vars

\* -------------------------------------------------- block-layer actions
\* The capacities a caller passes: powers of two (the debug assertion of
\* create and resize).
\* The small ones, and the two around the largest capacity class the four
\* high bits of the packed word can hold.
MaxCapClass == 2 ^ (16 - CAP_OFFSET) - 1
CapArgs == {2 ^ k : k \in 0..MaxSmallExp}
           \cup {2 ^ MaxCapClass, 2 ^ (MaxCapClass + 1)}

\* The addresses realloc may return for the block at a: the same one (resized
\* in place) or a free one (moved).  The free addresses are interchangeable;
\* the lowest stands for them.
ReallocAddrs(a) ==
    LET free == {b \in Addrs : ~heap[b].live}
    IN  {a} \cup {b \in free : \A c \in free : b <= c}

\* let me = B::create(cap); a panic (a failed debug assertion) leaves the
\* caller without a pointer.  A run of the block layer follows one block from
\* its creation to its disposal, as each of the tests does.
BCreate(a, cap) ==
    /\ me = 0
    /\ last.op = "init"
    /\ ~heap[a].live
    /\ LET r == create(World, a, cap, "T")
       IN  /\ SetWorld(r.w)
           /\ me' = r.ptr
           /\ outcome' = IF r.ok THEN "ok" ELSE "panic"
           /\ last' = Op("create", 0, cap, r.ptr)
    /\ UNCHANGED <<handles, debug, nextVal, moved, owned, tpc>>

\* me = B::resize(me, new_cap); a panic (a failed debug assertion, after the
\* realloc) unwinds past the assignment: the caller is left with the pointer
\* it passed if the block stayed where it was, and with none if it moved.
BResize(new_cap, a2) ==
    /\ me # 0
    /\ a2 \in ReallocAddrs(me)
    /\ LET r == resize(World, me, new_cap, a2)
       IN  /\ SetWorld(r.w)
           /\ me' = IF r.ok \/ r.ptr = me THEN r.ptr ELSE 0
           /\ outcome' = IF r.ok THEN "ok" ELSE "panic"
           /\ last' = Op("resize", me, new_cap, r.ptr)
    /\ UNCHANGED <<handles, debug, nextVal, moved, owned, tpc>>

\* B::insert(me, pos, val) with a fresh value, under the preconditions the
\* debug assertions state: len < capacity and pos <= len.
BInsert(pos) ==
    /\ me # 0
    /\ CanMake
    /\ len(heap[me]) < capacity(heap[me])
    /\ pos <= len(heap[me])
    /\ LET r == insert(World, me, pos, nextVal)
       IN  /\ SetWorld(r.w)
           /\ me' = me
           /\ outcome' = IF r.ok THEN "ok" ELSE "panic"
           /\ last' = Op("insert", me, pos, nextVal)
    /\ nextVal' = nextVal + 1
    /\ UNCHANGED <<handles, debug, moved, owned, tpc>>

\* let v = B::remove(me, pos); under the precondition pos < len.  A run takes
\* at most MaxVals values out.
BRemove(pos) ==
    /\ me # 0
    /\ Cardinality(moved) < MaxVals
    /\ pos < len(heap[me])
    /\ LET r == remove(World, me, pos)
       IN  /\ SetWorld(r.w)
           /\ moved' = moved \cup {r.ret}
           /\ last' = Op("remove", me, pos, r.ret)
    /\ outcome' = "ok"
    /\ UNCHANGED <<handles, debug, me, nextVal, owned, tpc>>

\* B::get(me, pos); under the precondition pos < len.
BGet(pos) ==
    /\ me # 0
    /\ pos < len(heap[me])
    /\ last' = Op("get", me, pos, get(World, me, pos))
    /\ outcome' = "ok"
    /\ UNCHANGED <<heap, handles, disposals, destroyed, fault, debug, me,
                   nextVal, moved, owned, tpc>>

\* *B::get_mut(me, pos) = val; with a fresh value, under pos < len.
BReplace(pos) ==
    /\ me # 0
    /\ CanMake
    /\ pos < len(heap[me])
    /\ SetWorld(get_mut_assign(World, me, pos, nextVal))
    /\ last' = Op("get_mut", me, pos, nextVal)
    /\ nextVal' = nextVal + 1
    /\ outcome' = "ok"
    /\ UNCHANGED <<handles, debug, me, moved, owned, tpc>>

\* B::dispose(me);
BDispose ==
    /\ me # 0
    /\ SetWorld(dispose(World, me))
    /\ me' = 0
    /\ last' = Op("dispose", me, 0, 0)
    /\ outcome' = "ok"
    /\ UNCHANGED <<handles, debug, nextVal, moved, owned, tpc>>

Positions == 0..MaxVals

NextBlock ==
    \/ \E a \in Addrs, cap \in CapArgs : BCreate(a, cap)
    \/ \E cap \in CapArgs, a2 \in Addrs : BResize(cap, a2)
    \/ \E pos \in Positions : BInsert(pos)
    \/ \E pos \in Positions : BRemove(pos)
    \/ \E pos \in Positions : BGet(pos)
    \/ \E pos \in Positions : BReplace(pos)
    \/ BDispose

SpecBlock == Init /\ [][NextBlock]_vars

\* The block layer on a block that is nearly as long as the 12 length bits
\* allow: the state after create(2^k) and FullLen inserts at the end, for the
\* capacity classes k that have room for that many elements.  The elements
\* already there are the values 1 .. FullLen, in order.
FullClasses == {k \in 1..MaxCapClass : 2 ^ k > FullLen}

InitFull ==
    /\ \E k \in FullClasses :
         heap = [a \in Addrs |->
                    IF a = Addr(1)
                        THEN [live |-> TRUE, kind |-> "T",
                              rcell |-> RCell_default,
                              len |-> BitOr(Shl16(k, CAP_OFFSET), FullLen),
                              data |-> [i \in 1..FullLen |-> i],
                              slots |-> layout(2 ^ k)]
                        ELSE NoBlock]
    /\ handles = [p \in PtrVals |-> 0]
    /\ disposals = [a \in Addrs |-> 0]
    /\ destroyed = << >>
    /\ fault = {}
    /\ debug \in BOOLEAN
    /\ me = Addr(1)
    /\ nextVal = FullLen + 1
    /\ moved = {}
    /\ owned = [t \in Threads |-> [p \in PtrVals |-> 0]]
    /\ tpc = [t \in Threads |-> 0]
    /\ outcome = "ok"
    /\ last = Op("insert", Addr(1), FullLen - 1, FullLen)

\* Every position of a short block; of a long one the last position and the
\* one past it.
EndPositions ==
    IF me = 0 THEN {}
    ELSE IF len(heap[me]) <= MaxVals THEN 0..len(heap[me])
    ELSE {len(heap[me]) - 1, len(heap[me])}

NextFull ==
    \/ \E a \in Addrs, cap \in CapArgs : BCreate(a, cap)
    \/ \E pos \in EndPositions : BInsert(pos)
    \/ \E pos \in EndPositions : BRemove(pos)
    \/ \E pos \in EndPositions : BGet(pos)
    \/ \E pos \in EndPositions : BReplace(pos)
    \/ BDispose

SpecFull == (Init \/ InitFull) /\ [][NextFull]_vars

\* ------------------------------------------------------------ claims
\* C1: a Block is never disposed while a live handle still references it: in
\* every state, the block behind every live left / right handle is allocated,
\* is of the handle's element type, and no freed memory was ever touched; and
\* a drop that leaves other handles on the block leaves it allocated.
C1_LiveHandleHasBlock ==
    /\ \A p \in PtrVals \ {0} :
         handles[p] > 0 =>
            /\ heap[Untag(p)].live
            /\ heap[Untag(p)].kind = (IF is_left(p) THEN "T" ELSE "U")
            /\ disposals[Untag(p)] = 0
    /\ fault = {}

\* One of several aliasing handles was dropped and the block is still there.
C1_Witness ==
    /\ last.op = "drop"
    /\ ~is_stub(last.ptr)
    /\ handles[last.ptr] >= 1
    /\ heap[Untag(last.ptr)].live

\* C2: every Block is released exactly once, by the drop of its last live
\* handle (the one whose decrement reports zero): dispose never runs twice on
\* an allocation, a step that disposes a block is the drop of the only handle
\* left on a counter of 1, and a block no handle refers to has been disposed.
C2_DisposedExactlyOnce ==
    /\ [](\A a \in Addrs :
            /\ disposals[a] <= 1
            /\ heap[a].live => disposals[a] = 0
            /\ HandlesOn(a) = 0 => ~heap[a].live
            /\ "double_free" \notin fault)
    /\ [][\A a \in Addrs :
            (disposals'[a] > disposals[a] \/ (heap[a].live /\ ~heap'[a].live)) =>
                /\ last'.op = "drop"
                /\ Untag(last'.ptr) = a
                /\ heap[a].live
                /\ heap[a].rcell = 1
                /\ RCell_dec_ref(heap[a].rcell).ret
                /\ HandlesOn(a) = 1
                /\ HandlesOn(a)' = 0
                /\ disposals'[a] = 1]_vars

\* The last handle of a block was dropped and the block was disposed.
C2_Witness ==
    /\ last.op = "drop"
    /\ ~is_stub(last.ptr)
    /\ HandlesOn(Untag(last.ptr)) = 0
    /\ ~heap[Untag(last.ptr)].live
    /\ disposals[Untag(last.ptr)] = 1

\* C3: the counter of a block that a live handle references is never 0 and
\* lies in 1..=65535, and it is 1 right after new_left / new_right.
C3_CounterRange ==
    /\ \A a \in Addrs :
         HandlesOn(a) > 0 =>
            /\ heap[a].rcell >= 1
            /\ heap[a].rcell <= U16_MAX
    /\ last.op \in {"new_left", "new_right"} =>
            heap[Untag(last.ptr)].rcell = 1

\* A referenced block whose counter stands at the maximum.
C3_Witness ==
    \E a \in Addrs : HandlesOn(a) > 0 /\ heap[a].rcell = U16_MAX

\* C4: at a counter of 65535, inc_ref returns false and leaves the counter
\* alone; a clone of a handle of such a block panics, makes no handle and
\* changes nothing of the block, and the drops that follow still account
\* correctly (the counter stays the number of live handles on the block).
C4_SaturatedClone ==
    /\ [][\A p \in PtrVals \ {0} :
            (/\ last'.op = "clone"
             /\ last'.ptr = p
             /\ heap[Untag(p)].rcell = U16_MAX) =>
                /\ ~RCell_inc_ref(heap[Untag(p)].rcell).ret
                /\ RCell_inc_ref(heap[Untag(p)].rcell).cell = U16_MAX
                /\ outcome' = "panic"
                /\ handles' = handles
                /\ heap' = heap
                /\ fault' = fault
                /\ disposals' = disposals]_vars
    /\ [](\A a \in Addrs : heap[a].live => heap[a].rcell = HandlesOn(a))
    /\ [](outcome = "panic" =>
            /\ last.op = "clone"
            /\ heap[Untag(last.ptr)].rcell = U16_MAX)

\* A clone at the maximum count has panicked and one of the handles was
\* dropped afterwards.
C4_Witness ==
    /\ last.op = "drop"
    /\ ~is_stub(last.ptr)
    /\ heap[Untag(last.ptr)].live
    /\ heap[Untag(last.ptr)].rcell = U16_MAX - 1
    /\ HandlesOn(Untag(last.ptr)) = U16_MAX - 1

\* C5: with an atomic counter, any interleaving of clones and drops by several
\* threads, each on handles it owns, is safe: no freed memory is ever touched
\* (so no counter of a disposed block is incremented or decremented), the
\* counter of a block is the number of handles on it, a block is disposed at
\* most once and only after its last handle was dropped, by the one thread
\* whose decrement reported zero.
C5_AtomicCounterSafe ==
    /\ [](/\ fault = {}
          /\ \A p \in PtrVals :
                handles[p] = SumOver([t \in Threads |-> owned[t][p]], Threads)
          /\ \A a \in Addrs :
                /\ disposals[a] <= 1
                /\ HandlesOn(a) > 0 =>
                      /\ heap[a].live
                      /\ heap[a].rcell = HandlesOn(a)
                      /\ \A t \in Threads : tpc[t] # a
                /\ (heap[a].live /\ HandlesOn(a) = 0) =>
                      /\ heap[a].rcell = 0
                      /\ Cardinality({t \in Threads : tpc[t] = a}) = 1
                /\ ~heap[a].live => \A t \in Threads : tpc[t] # a)
    /\ [][\A a \in Addrs :
            (heap[a].live /\ ~heap'[a].live) =>
                /\ HandlesOn(a) = 0
                /\ last'.op = "dispose"
                /\ tpc[last'.arg] = a
                /\ disposals'[a] = 1]_vars

\* A thread's decrement has reported zero and it is about to dispose the
\* block, while another thread still owns a handle (of another block).
C5_Witness ==
    \E t \in Threads, u \in Threads :
        /\ t # u
        /\ tpc[t] # 0
        /\ last.op = "drop"
        /\ last.arg = t
        /\ \E p \in PtrVals \ {0} : owned[u][p] > 0

\* The capacities the capacity class can encode: 2^1 .. 2^15.
ValidCaps == {2 ^ k : k \in 1..MaxCapClass}

\* The block the caller's pointer refers to.
Blk == heap[me]

\* The sequence s with v put in at position pos (from 0).
InsertAt(s, pos, v) == SubSeq(s, 1, pos) \o <<v>> \o SubSeq(s, pos + 1, Len(s))

\* The sequence s without the element at position pos (from 0).
RemoveAt(s, pos) == SubSeq(s, 1, pos) \o SubSeq(s, pos + 2, Len(s))

\* C6: for every valid power-of-two capacity c (one the capacity class can
\* encode, 2..2^15), create(c) yields a block of length 0 whose capacity()
\* is exactly c (and so passes its own debug assertions).
C6_CreateLenCap ==
    (last.op = "create" /\ last.arg \in ValidCaps) =>
        /\ outcome = "ok"
        /\ me # 0
        /\ Blk.live
        /\ len(Blk) = 0
        /\ capacity(Blk) = last.arg
        /\ Blk.slots = last.arg

\* create(2^15), the largest valid capacity, has returned in a debug build.
C6_Witness ==
    /\ last.op = "create"
    /\ last.arg = 2 ^ MaxCapClass
    /\ debug
    /\ me # 0

\* C7 as claimed: resize(p, c2), for any power-of-two c2 that is at least the
\* current capacity or at least the current length, on a block that create or
\* resize made with a valid capacity, yields a block of capacity exactly c2
\* with the length, the elements and the counter it had.
C7_ResizeAsClaimed ==
    [][(/\ last'.op = "resize"
        /\ fault = {}
        /\ capacity(Blk) \in ValidCaps
        /\ is_power_of_two(last'.arg)
        /\ (last'.arg >= capacity(Blk) \/ last'.arg >= len(Blk))) =>
            /\ outcome' = "ok"
            /\ me' # 0
            /\ capacity(Blk') = last'.arg
            /\ len(Blk') = len(Blk)
            /\ Elems(Blk') = Elems(Blk)
            /\ Blk'.rcell = Blk.rcell]_vars

\* C8 as claimed: insert(p, pos, v) with pos <= length and length < capacity
\* turns the elements s into s[0..pos) ++ [v] ++ s[pos..], adds exactly 1 to
\* the length and leaves the capacity alone.
C8_InsertAsClaimed ==
    [][last'.op = "insert" =>
            /\ outcome' = "ok"
            /\ me' = me
            /\ Elems(Blk') = InsertAt(Elems(Blk), last'.arg, last'.ret)
            /\ len(Blk') = len(Blk) + 1
            /\ capacity(Blk') = capacity(Blk)]_vars

\* C8, amended: the same of every insert with pos <= length, length <
\* capacity and length < 4095 (the new length fits the 12 length bits); hence
\* while nothing was taken out, replaced or disposed the length is the number
\* of values put in, and get(i) returns the element at i of that order.
C8_InsertBelowMaxLen ==
    /\ [][(last'.op = "insert" /\ len(Blk) < LEN_MASK) =>
            /\ outcome' = "ok"
            /\ me' = me
            /\ Elems(Blk') = InsertAt(Elems(Blk), last'.arg, last'.ret)
            /\ len(Blk') = len(Blk) + 1
            /\ capacity(Blk') = capacity(Blk)]_vars
    /\ []((/\ me # 0
           /\ moved = {}
           /\ DOMAIN destroyed = {}
           /\ "len_overflow" \notin fault) =>
                len(Blk) = nextVal - 1)
    /\ []((last.op = "get" /\ "len_overflow" \notin fault) =>
                /\ last.arg < len(Blk)
                /\ last.ret = Slot(Blk.data, last.arg))

\* A value was inserted in front of an element that was there before.
C8_Witness ==
    /\ last.op = "insert"
    /\ outcome = "ok"
    /\ me # 0
    /\ len(Blk) >= 2
    /\ last.arg = 0
    /\ Slot(Blk.data, 0) = last.ret
    /\ Slot(Blk.data, 1) < last.ret

\* C9 as claimed: remove(p, pos) with pos < length returns the value that
\* was at pos, takes exactly 1 off the length, leaves the capacity alone and
\* keeps the other elements in their order (here: in a debug build in which
\* every assertion so far has passed).
C9_RemoveAsClaimed ==
    [][(last'.op = "remove" /\ debug /\ fault = {}) =>
            /\ last'.ret = Elems(Blk)[last'.arg + 1]
            /\ len(Blk') = len(Blk) - 1
            /\ capacity(Blk') = capacity(Blk)
            /\ Elems(Blk') = RemoveAt(Elems(Blk), last'.arg)]_vars

\* The live elements of the caller's block, as a set (none without a block).
ElemSet ==
    IF me = 0 THEN {}
    ELSE LET e == Elems(Blk) IN {e[i] : i \in 1..len(Blk)}

\* C10 as claimed: at dispose, every value ever put into the block was either
\* returned by remove and is not destroyed by dispose, or is destroyed exactly
\* once by dispose (in runs whose inserts all fit the length bits).
C10_AccountedAsClaimed ==
    [][(last'.op = "dispose" /\ "len_overflow" \notin fault) =>
            LET live   == ElemSet
                before == DOMAIN destroyed
                after  == DOMAIN destroyed'
            IN  \A v \in ValsMade :
                    \/ v \in moved /\ v \notin after
                    \/ /\ v \notin moved
                       /\ v \in live
                       /\ v \notin before
                       /\ v \in after
                       /\ destroyed'[v] = 1]_vars

\* C10, amended: every value ever put into the block is accounted for exactly
\* once: it is a live element (once), or it was returned by remove, or its
\* destructor ran exactly once (in the get_mut assignment that replaced it, or
\* in dispose); dispose runs the destructors of exactly the live elements,
\* slots 0..length, and never one of an uninitialised slot.
C10_AccountedOnce ==
    /\ []("len_overflow" \notin fault =>
            LET live == ElemSet
                gone == DOMAIN destroyed
            IN  /\ "drop_uninit" \notin fault
                /\ me # 0 => Cardinality(live) = len(Blk)
                /\ live \cap moved = {}
                /\ live \cap gone = {}
                /\ moved \cap gone = {}
                /\ live \cup moved \cup gone = ValsMade
                /\ \A v \in gone : destroyed[v] = 1)
    /\ [][(last'.op = "dispose" /\ "len_overflow" \notin fault) =>
            /\ DOMAIN destroyed' = DOMAIN destroyed \cup ElemSet
            /\ \A v \in DOMAIN destroyed : destroyed'[v] = destroyed[v]
            /\ moved' = moved]_vars

\* A block was disposed after one of its values was taken out by remove, one
\* was replaced through get_mut, and one was still in it.
C10_Witness ==
    /\ last.op = "dispose"
    /\ "len_overflow" \notin fault
    /\ moved # {}
    /\ \E v \in DOMAIN destroyed : v < nextVal - 1
    /\ Destroyed(nextVal - 1) = 1

\* The classes of a handle word that hold of it.
Classes(p) ==
    (IF is_stub(p) THEN {"stub"} ELSE {})
    \cup (IF is_left(p) THEN {"left"} ELSE {})
    \cup (IF is_right(p) THEN {"right"} ELSE {})

\* C11: every handle word is in exactly one of the states stub, left, right;
\* new_stub yields a stub, new_left a left and new_right a right handle, a
\* clone has the class of its original, and no step changes the word of a
\* handle (a step makes or drops one handle and leaves every other as it is).
C11_ExactlyOneClass ==
    /\ [](/\ \A p \in PtrVals : Cardinality(Classes(p)) = 1
          /\ last.op = "new_stub" => Classes(last.ret) = {"stub"}
          /\ last.op = "new_left" => Classes(last.ret) = {"left"}
          /\ last.op = "new_right" => Classes(last.ret) = {"right"}
          /\ (last.op = "clone" /\ outcome = "ok") =>
                Classes(last.ret) = Classes(last.ptr))
    /\ [][\E p \in PtrVals :
            /\ handles'[p] \in {handles[p] - 1, handles[p], handles[p] + 1}
            /\ \A q \in PtrVals \ {p} : handles'[q] = handles[q]]_vars

\* A stub, a left and a right handle are live at once.
C11_Witness ==
    /\ handles[new_stub] > 0
    /\ \E p \in PtrVals : is_left(p) /\ handles[p] > 0
    /\ \E p \in PtrVals : is_right(p) /\ handles[p] > 0

\* C12: a clone of a left or right handle whose block's counter is below the
\* maximum succeeds, yields the identical tagged word (one more live handle of
\* that word), adds exactly 1 to that block's counter and changes nothing
\* else: not the block's length word, payload or allocation, and no other
\* block.
C12_CloneFrame ==
    [][\A p \in PtrVals \ {0} :
        (/\ last'.op = "clone"
         /\ last'.ptr = p
         /\ heap[Untag(p)].rcell < U16_MAX) =>
            /\ outcome' = "ok"
            /\ last'.ret = p
            /\ is_left(last'.ret) = is_left(p)
            /\ handles' = [handles EXCEPT ![p] = @ + 1]
            /\ heap' = [heap EXCEPT ![Untag(p)].rcell = @ + 1]
            /\ disposals' = disposals
            /\ destroyed' = destroyed
            /\ fault' = fault]_vars

\* A right handle was cloned and took the counter to its maximum.
C12_Witness ==
    /\ last.op = "clone"
    /\ outcome = "ok"
    /\ is_right(last.ptr)
    /\ handles[last.ptr] = U16_MAX
    /\ heap[Untag(last.ptr)].rcell = U16_MAX

\* C13: a stub owns nothing: the clone of a stub is a stub, and neither the
\* clone nor the drop of a stub touches a counter, allocates or frees: the
\* heap, the disposals and the fault record are as they were.
C13_StubNoOps ==
    [][(last'.op \in {"clone", "drop"} /\ is_stub(last'.ptr)) =>
            /\ heap' = heap
            /\ disposals' = disposals
            /\ destroyed' = destroyed
            /\ fault' = fault
            /\ outcome' = "ok"
            /\ last'.op = "clone" =>
                  /\ is_stub(last'.ret)
                  /\ handles' = [handles EXCEPT ![new_stub] = @ + 1]
            /\ last'.op = "drop" =>
                  handles' = [handles EXCEPT ![new_stub] = @ - 1]]_vars

\* A stub was dropped while a block with a live handle exists.
C13_Witness ==
    /\ last.op = "drop"
    /\ is_stub(last.ptr)
    /\ \E a \in Addrs : heap[a].live /\ HandlesOn(a) > 0

\* C14: an assignment through get_mut(p, pos), pos < length, makes get(p, pos)
\* return the new value (right after it, and in a get that follows), and
\* changes neither the length, nor the capacity, nor the counter, nor the
\* element at any other position (in runs without undefined behaviour).
C14_GetMutAssign ==
    /\ [][(last'.op = "get_mut" /\ fault' = {}) =>
            /\ me' = me
            /\ get([heap |-> heap'], me', last'.arg) = last'.ret
            /\ len(Blk') = len(Blk)
            /\ capacity(Blk') = capacity(Blk)
            /\ Blk'.len = Blk.len
            /\ Blk'.rcell = Blk.rcell
            /\ Blk'.slots = Blk.slots
            /\ Elems(Blk') = [Elems(Blk) EXCEPT ![last'.arg + 1] = last'.ret]]_vars
    /\ [][(/\ last.op = "get_mut"
           /\ last'.op = "get"
           /\ last'.arg = last.arg
           /\ fault = {}) => last'.ret = last.ret]_vars

\* The last element of a long block was replaced and the one before it is
\* the one that was there.
C14_Witness ==
    /\ last.op = "get_mut"
    /\ fault = {}
    /\ me # 0
    /\ len(Blk) >= FullLen
    /\ last.arg = len(Blk) - 1
    /\ Slot(Blk.data, last.arg) = last.ret
    /\ Slot(Blk.data, last.arg - 1) \in ValsMade \ {last.ret}

\* The capacity class in the four high bits of a block's packed word.
Class(blk) == Shr16(blk.len, CAP_OFFSET)

\* C15 as claimed: in every state reached by create / resize / insert /
\* remove calls that meet their preconditions (here: in a debug build, every
\* assertion of every call so far has passed), length <= capacity and the
\* stored capacity class is in 1..15, never the tight class 0.
C15_ClassNeverTight ==
    (/\ debug
     /\ me # 0
     /\ outcome = "ok"
     /\ fault = {}) =>
        /\ len(Blk) <= capacity(Blk)
        /\ Class(Blk) \in 1..MaxCapClass
        /\ capacity(Blk) = 2 ^ Class(Blk)
        /\ capacity(Blk) <= 2 ^ MaxCapClass

\* C16: dec_ref on a counter n >= 1 stores n - 1 and returns true exactly
\* when n = 1; the drop of a handle disposes the block if and only if that
\* result is true, and otherwise leaves the block as it was but for the
\* counter.
C16_DecRef ==
    [][\A p \in PtrVals \ {0} :
        (last'.op = "drop" /\ last'.ptr = p /\ heap[Untag(p)].live) =>
            LET a == Untag(p)
                n == heap[a].rcell
                r == RCell_dec_ref(n)
            IN  /\ n >= 1
                /\ r.cell = n - 1
                /\ r.ret = (n = 1)
                /\ r.ret => /\ ~heap'[a].live
                            /\ disposals'[a] = disposals[a] + 1
                /\ ~r.ret => /\ heap' = [heap EXCEPT ![a].rcell = n - 1]
                             /\ disposals' = disposals]_vars

\* A drop took a counter from 2 to 1 and the block is still allocated.
C16_Witness ==
    /\ last.op = "drop"
    /\ ~is_stub(last.ptr)
    /\ heap[Untag(last.ptr)].live
    /\ heap[Untag(last.ptr)].rcell = 1
    /\ disposals[Untag(last.ptr)] = 0

\* C17: in a single-threaded run of new_left / new_right / clone / drop, the
\* counter of every block not yet disposed is the number of live handles
\* whose word refers to it, and no handle refers to a disposed block.
C17_CounterIsHandleCount ==
    \A a \in Addrs :
        /\ heap[a].live => heap[a].rcell = HandlesOn(a)
        /\ ~heap[a].live => HandlesOn(a) = 0

\* Two blocks with different numbers of handles, one of them shared.
C17_Witness ==
    \E a \in Addrs, b \in Addrs :
        /\ heap[a].live
        /\ heap[b].live
        /\ heap[a].rcell >= 2
        /\ heap[b].rcell = 1
        /\ last.op = "clone"

\* C18 as claimed: in every state reached by create / resize / insert /
\* remove with power-of-two capacity arguments (here: in a debug build, every
\* assertion of every call so far has passed), the capacity that capacity()
\* decodes is the number of slots the block was last allocated with.
C18_CapacityIsAllocated ==
    (/\ debug
     /\ me # 0
     /\ outcome = "ok"
     /\ fault = {}) =>
        /\ capacity(Blk) = Blk.slots
        /\ layout(capacity(Blk)) = layout(Blk.slots)

\* The number of values that are elements of the caller's block: those made,
\* less those taken out by remove and those destroyed.
LiveCount == Cardinality(ValsMade \ (moved \cup DOMAIN destroyed))

\* C19 as claimed: for every insert with pos <= length < capacity and every
\* remove with pos < length on a block of capacity class 1..15, the packed
\* word afterwards is the old class in the high 4 bits and the old length
\* + 1, resp. - 1, in the low 12 bits: no carry or borrow between the two.
C19_NoCarryAsClaimed ==
    [][(/\ last'.op \in {"insert", "remove"}
        /\ fault = {}
        /\ Class(Blk) \in 1..MaxCapClass) =>
            LET n == IF last'.op = "insert" THEN len(Blk) + 1
                     ELSE len(Blk) - 1
            IN  /\ BitAnd(Blk'.len, LEN_MASK) = n
                /\ Shr16(Blk'.len, CAP_OFFSET) = Class(Blk)
                /\ Blk'.len = Class(Blk) * 2 ^ CAP_OFFSET + n]_vars

\* C19, amended: the same of every remove and of every insert on a block of
\* fewer than 4095 elements (the new length fits the 12 length bits); and
\* while that is so the low 12 bits are the true number of live elements.
C19_NoCarryBelowMaxLen ==
    /\ [][(/\ last'.op \in {"insert", "remove"}
           /\ fault = {}
           /\ Class(Blk) \in 1..MaxCapClass
           /\ last'.op = "insert" => len(Blk) < LEN_MASK) =>
            LET n == IF last'.op = "insert" THEN len(Blk) + 1
                     ELSE len(Blk) - 1
            IN  /\ outcome' = "ok"
                /\ BitAnd(Blk'.len, LEN_MASK) = n
                /\ Shr16(Blk'.len, CAP_OFFSET) = Class(Blk)
                /\ Blk'.len = Class(Blk) * 2 ^ CAP_OFFSET + n]_vars
    /\ []((me # 0 /\ fault = {}) =>
            BitAnd(Blk.len, LEN_MASK) = LiveCount)

\* An insert has filled all 12 length bits of a block of a class with room
\* for more, and the class is what it was.
C19_Witness ==
    /\ last.op = "insert"
    /\ outcome = "ok"
    /\ fault = {}
    /\ me # 0
    /\ BitAnd(Blk.len, LEN_MASK) = LEN_MASK
    /\ Class(Blk) \in FullClasses

====
